---------------------------- MODULE Spec2Model ----------------------------
(***************************************************************************)
(* SM-2 spaced repetition engine of thai-script (SM2Card, SM2Deck).        *)
(*                                                                         *)
(* Representation of the JavaScript numbers:                               *)
(*   - easeFactor is kept in hundredths (2.5 is 250, 1.3 is 130); every    *)
(*     quantity the code adds to it is a whole number of hundredths, so    *)
(*     the arithmetic is exact (IEEE rounding noise of about 1e-16 is not  *)
(*     represented);                                                       *)
(*   - averageResponseTime is kept in units of 1/AvgScale ms, which makes  *)
(*     the moving average exact for the number of samples explored;        *)
(*   - timestamps count clock ticks of half a day (Date.now() counts       *)
(*     milliseconds, which do not fit 32-bit integers): Day, the code's    *)
(*     24 * 60 * 60 * 1000, is two ticks.                                  *)
(***************************************************************************)
EXTENDS Integers, Sequences, FiniteSets, TLC

VARIABLES
    cards,                  \* SM2Deck.cards: character -> SM2Card (the Map's values)
    order,                  \* SM2Deck.cards: the Map's insertion order (sequence of keys)
    newCardsPerDay,         \* SM2Deck.newCardsPerDay
    maxReviewsPerSession,   \* SM2Deck.maxReviewsPerSession
    clock,                  \* the value Date.now() returns
    last,                   \* the call that produced this state: the operation,
                            \* the card's key and the arguments as passed
    currentCard,            \* ThaiScriptApp.currentCard, as the card's key
    awaitingNextCard,       \* ThaiScriptApp.awaitingNextCard
    timers,                 \* the auto-advance callbacks setTimeout holds, each
                            \* as the card that was on screen when it was set
    gradings,               \* history: the calls of review() on the current
                            \* card since it became the current card
    educationalPanel,       \* the panel with the re-type input is on screen
    unlockedLevels          \* ThaiScriptApp.data.settings.unlockedLevels

deckVars == <<cards, order, newCardsPerDay, maxReviewsPerSession>>
appVars == <<currentCard, awaitingNextCard, timers, gradings, educationalPanel,
             unlockedLevels>>
vars == <<deckVars, clock, last, appVars>>

---------------------------------------------------------------------------
(* Bounds *)

\* Spec: at most this many review() calls on a card
MaxReviews == 4
\* qualities offered to review() range over -QualitySlack .. 5+QualitySlack
QualitySlack == 1
\* Spec: the clock runs over 0..MaxClock
MaxClock == 2

\* Spec: the characters offered to addCard
Keys == {"a"}
Qualities == (0 - QualitySlack) .. (5 + QualitySlack)
\* Spec: the response times offered to review() (0 is "not measured")
ResponseTimes == {0, 1000}
\* by how many ticks the clock advances between the two reads of one review()
Tears == {0, 1}
\* AverageSpec: the response times offered to review(), in ms
SampleTimes == {0, 1000, 2000}
\* RunSpec: reviews per card, enough for two fails and a run of four passes
RunMaxReviews == 6
\* RunSpec: the qualities: a fail, the pass that lowers the ease factor most
\* and the pass that raises it
RunQualities == {0, 3, 5}

\* DeckSpec: at most this many review() calls over the deck
DeckMaxReviews == 2
\* DeckSpec: the clock runs over 0..DeckMaxClock
DeckMaxClock == 2
\* DeckSpec: the characters offered to addCard, in the order of their first
\* addCard (Thai characters in the app: no key is an array index, so a plain
\* object keeps them in insertion order)
DeckKeys == <<"a", "b", "c">>
\* DeckSpec: the qualities offered to review(): a fail and a pass
DeckQualities == {1, 4}
\* DeckSpec: by how many ticks the clock may advance during one query
QueryDrift == 2
\* ConfigSpec: the values the setting "new cards per day" is given
ConfigValues == 0 .. 3
\* StatsSpec: reviews in all, enough for a mature card next to a learning one
StatsMaxReviews == 4
\* SessionSpec: reviews in all, enough to grade every card and one again
SessionMaxReviews == 4
\* SessionSpec: the clock runs from 0 to SessionMaxClock, past one day
SessionMaxClock == 3
\* DeckSpec: the limits offered to getNewCards()
Limits == (0 - 2) .. 4

\* HostSpec: at most this many review() calls by the app
HostMaxReviews == 2
\* HostSpec: the clock runs over 0..HostMaxClock
HostMaxClock == 1
\* HostSpec: the characters of the levels (src/js/data.js has 19, 15 and 12
\* of them); a level holds the characters of the levels below it
Level1Chars == <<"a", "b", "c">>
Level2Chars == <<"d">>
Level3Chars == <<"e">>
\* HostSpec: what stats.calculateQuality() answers (a fail and a pass) and
\* the time the app measures between showing a card and the answer
HostQualities == {1, 4}
HostResponseTimes == {1000}

---------------------------------------------------------------------------
(* Program constants *)

EaseScale == 100
InitialEase == 250
MinEase == 130
Day == 2
DefaultNewCardsPerDay == 5
DefaultMaxReviewsPerSession == 50
NULL == -1
AvgScale == 5 * 5 * 5 * 5 * 5 * 5

Max(a, b) == IF a >= b THEN a ELSE b
Min(a, b) == IF a <= b THEN a ELSE b

\* Math.round on a non-negative quotient n/d: the nearest integer, halves up
Round(n, d) == (2 * n + d) \div (2 * d)

---------------------------------------------------------------------------
(* SM2Card *)

\* constructor(character), with Date.now() = now
NewCard(character, now) ==
    [ character           |-> character,
      easeFactor          |-> InitialEase,
      interval            |-> 0,
      repetitions         |-> 0,
      nextReview          |-> now,
      lastReviewed        |-> NULL,
      totalReviews        |-> 0,
      correctCount        |-> 0,
      incorrectCount      |-> 0,
      averageResponseTime |-> 0,
      isNew               |-> TRUE,
      isLearning          |-> FALSE,
      isMature            |-> FALSE ]

\* a clamp that forgets the upper end of the scale
ClampQuality_NoUpper(quality) == Max(0, quality)

\* quality = Math.max(0, Math.min(5, quality))
ClampQuality(quality) == Max(0, Min(5, quality))

\* the factor without its quadratic term
QualityFactor_Linear(quality) == 10 - (5 - quality) * 8

\* the factor counting the distance from 6 instead of 5
QualityFactor_Shifted(quality) == 10 - (6 - quality) * (8 + (6 - quality) * 2)

\* 0.1 - (5 - quality) * (0.08 + (5 - quality) * 0.02), in hundredths
QualityFactor(quality) == 10 - (5 - quality) * (8 + (5 - quality) * 2)

\* the ease update without its floor
NextEase_NoFloor(easeFactor, quality) == easeFactor + QualityFactor(quality)

\* this.easeFactor = Math.max(1.3, this.easeFactor + qualityFactor)
\* an ease factor with the floor 1.0
NextEase_FloorAtOne(easeFactor, quality) ==
    Max(EaseScale, easeFactor + QualityFactor(quality))

NextEase(easeFactor, quality) == Max(MinEase, easeFactor + QualityFactor(quality))

\* a moving average that blends the first sample with the initial 0
NextAverage_BlendsFirst(average, responseTime) ==
    IF responseTime > 0
    THEN (average * 8 + responseTime * AvgScale * 2) \div 10
    ELSE average

\* the exponential moving average of the response time
NextAverage(average, responseTime) ==
    IF responseTime > 0
    THEN IF average = 0
         THEN responseTime * AvgScale
         ELSE (average * 8 + responseTime * AvgScale * 2) \div 10
    ELSE average

\* a pass branch whose second rung already multiplies by the ease factor
PassBranch_EarlyFormula(card) ==
    IF card.repetitions = 0
    THEN [card EXCEPT !.correctCount = @ + 1, !.interval = 1,
                      !.isLearning = TRUE, !.repetitions = @ + 1]
    ELSE [card EXCEPT !.correctCount = @ + 1,
                      !.interval = Round(card.interval * card.easeFactor, EaseScale),
                      !.isLearning = (card.repetitions = 1),
                      !.isMature = (card.repetitions > 1 \/ card.isMature),
                      !.repetitions = @ + 1]

\* a pass branch whose second rung already makes the card mature
PassBranch_MatureAtTwo(card) ==
    IF card.repetitions = 0
    THEN [card EXCEPT !.correctCount = @ + 1, !.interval = 1,
                      !.isLearning = TRUE, !.repetitions = @ + 1]
    ELSE IF card.repetitions = 1
    THEN [card EXCEPT !.correctCount = @ + 1, !.interval = 6,
                      !.isLearning = FALSE, !.isMature = TRUE,
                      !.repetitions = @ + 1]
    ELSE [card EXCEPT !.correctCount = @ + 1,
                      !.interval = Round(card.interval * card.easeFactor, EaseScale),
                      !.isLearning = FALSE, !.isMature = TRUE,
                      !.repetitions = @ + 1]

\* a pass branch that sets the mature flag and leaves the learning flag
PassBranch_BothFlags(card) ==
    IF card.repetitions = 0
    THEN [card EXCEPT !.correctCount = @ + 1, !.interval = 1,
                      !.isLearning = TRUE, !.repetitions = @ + 1]
    ELSE IF card.repetitions = 1
    THEN [card EXCEPT !.correctCount = @ + 1, !.interval = 6,
                      !.isLearning = TRUE, !.repetitions = @ + 1]
    ELSE [card EXCEPT !.correctCount = @ + 1,
                      !.interval = Round(card.interval * card.easeFactor, EaseScale),
                      !.isMature = TRUE,
                      !.repetitions = @ + 1]

\* the pass branch of review(): interval and flags by the repetitions so far
PassBranch(card) ==
    IF card.repetitions = 0
    THEN [card EXCEPT !.correctCount = @ + 1, !.interval = 1,
                      !.isLearning = TRUE, !.repetitions = @ + 1]
    ELSE IF card.repetitions = 1
    THEN [card EXCEPT !.correctCount = @ + 1, !.interval = 6,
                      !.isLearning = TRUE, !.repetitions = @ + 1]
    ELSE [card EXCEPT !.correctCount = @ + 1,
                      !.interval = Round(card.interval * card.easeFactor, EaseScale),
                      !.isLearning = FALSE, !.isMature = TRUE,
                      !.repetitions = @ + 1]

\* a fail branch that does not count the failure
FailBranch_NoCount(card) ==
    [card EXCEPT !.repetitions = 0, !.interval = 1,
                 !.isLearning = TRUE, !.isMature = FALSE]

\* a fail branch that leaves the mature flag as it was
FailBranch_KeepMature(card) ==
    [card EXCEPT !.incorrectCount = @ + 1, !.repetitions = 0, !.interval = 1,
                 !.isLearning = TRUE]

\* a fail branch that schedules the card for the moment of the review
FailBranch_DueAtOnce(card) ==
    [card EXCEPT !.incorrectCount = @ + 1, !.repetitions = 0, !.interval = 0,
                 !.isLearning = TRUE, !.isMature = FALSE]

\* the fail branch of review()
FailBranch(card) ==
    [card EXCEPT !.incorrectCount = @ + 1, !.repetitions = 0, !.interval = 1,
                 !.isLearning = TRUE, !.isMature = FALSE]

\* review() updating the ease factor before it computes the interval
ReviewCard_EaseFirst(card, quality0, responseTime, now1, now2) ==
    LET quality == ClampQuality(quality0)
        stamped == [card EXCEPT !.totalReviews = @ + 1,
                                !.lastReviewed = now1,
                                !.isNew = FALSE,
                                !.averageResponseTime = NextAverage(@, responseTime)]
        eased == [stamped EXCEPT !.easeFactor = NextEase(@, quality)]
        branched == IF quality >= 3 THEN PassBranch(eased) ELSE FailBranch(eased)
    IN  [branched EXCEPT !.nextReview = now2 + branched.interval * Day]

\* review() updating the ease factor in the pass branch only
ReviewCard_EaseOnPass(card, quality0, responseTime, now1, now2) ==
    LET quality == ClampQuality(quality0)
        stamped == [card EXCEPT !.totalReviews = @ + 1,
                                !.lastReviewed = now1,
                                !.isNew = FALSE,
                                !.averageResponseTime = NextAverage(@, responseTime)]
        branched == IF quality >= 3
                    THEN [PassBranch(stamped) EXCEPT !.easeFactor = NextEase(@, quality)]
                    ELSE FailBranch(stamped)
    IN  [branched EXCEPT !.nextReview = now2 + branched.interval * Day]

\* review(quality, responseTime); now1 and now2 are the two values Date.now()
\* returns during the call (lines 49 and 98)
ReviewCard(card, quality0, responseTime, now1, now2) ==
    LET quality == ClampQuality(quality0)
        stamped == [card EXCEPT !.totalReviews = @ + 1,
                                !.lastReviewed = now1,
                                !.isNew = FALSE,
                                !.averageResponseTime = NextAverage(@, responseTime)]
        branched == IF quality >= 3 THEN PassBranch(stamped) ELSE FailBranch(stamped)
        eased == [branched EXCEPT !.easeFactor = NextEase(@, quality)]
    IN  [eased EXCEPT !.nextReview = now2 + eased.interval * Day]

\* SM2Card.getState()
GetState(card) ==
    IF card.isNew THEN "new"
    ELSE IF card.isLearning THEN "learning"
    ELSE IF card.isMature THEN "mature"
    ELSE "unknown"

---------------------------------------------------------------------------
(* SM2Deck queries, with Date.now() = now throughout the call *)

\* a due test that leaves out the card whose time has just come
IsDue_Strict(card, now) == now > card.nextReview

\* SM2Card.isDue()
IsDue(card, now) == now >= card.nextReview

\* SM2Card.getDaysOverdue(), in clock ticks instead of days
DaysOverdue(card, now) ==
    IF ~IsDue(card, now) THEN 0
    ELSE IF card.nextReview - now < 0 THEN now - card.nextReview
    ELSE card.nextReview - now

\* a sort that puts the later of two equally overdue cards first
RECURSIVE SortByOverdue_TiesReversed(_, _)
SortByOverdue_TiesReversed(ks, now) ==
    IF ks = << >> THEN << >>
    ELSE LET rest == SortByOverdue_TiesReversed(Tail(ks), now)
             k    == Head(ks)
             ahead == SelectSeq(rest, LAMBDA x :
                          DaysOverdue(cards[x], now) >= DaysOverdue(cards[k], now))
             behind == SelectSeq(rest, LAMBDA x :
                          DaysOverdue(cards[x], now) < DaysOverdue(cards[k], now))
         IN ahead \o <<k>> \o behind

\* Array.prototype.sort with (a, b) => b.getDaysOverdue() - a.getDaysOverdue():
\* a stable sort, most overdue first
RECURSIVE SortByOverdue(_, _)
SortByOverdue(ks, now) ==
    IF ks = << >> THEN << >>
    ELSE LET rest == SortByOverdue(Tail(ks), now)
             k    == Head(ks)
             ahead == SelectSeq(rest, LAMBDA x :
                          DaysOverdue(cards[x], now) > DaysOverdue(cards[k], now))
             behind == SelectSeq(rest, LAMBDA x :
                          DaysOverdue(cards[x], now) <= DaysOverdue(cards[k], now))
         IN ahead \o <<k>> \o behind

\* SM2Deck.getDueCards(), as the sequence of the cards' keys
GetDueCards(now) ==
    SortByOverdue(SelectSeq(order, LAMBDA k : IsDue(cards[k], now)), now)

\* the readings of Date.now() during one query made at the time now: one per
\* card, in the order the cards are visited, none earlier than the one before
Readings(now) ==
    {reads \in [1..Len(order) -> now..(now + QueryDrift)] :
        \A i, j \in 1..Len(order) : i <= j => reads[i] <= reads[j]}

\* Array.from(this.cards.values()).filter(card => card.isDue()), the filter of
\* getDueCards() and getStats(), where the isDue() of the i-th card reads
\* reads[i] from the clock: the set of the keys it keeps
FilterDue(reads) ==
    {order[i] : i \in {j \in 1..Len(order) : IsDue(cards[order[j]], reads[j])}}

\* Array.prototype.slice(0, end): a negative end counts from the back
Slice0(seq, end) ==
    SubSeq(seq, 1, IF end < 0 THEN Max(Len(seq) + end, 0) ELSE Min(end, Len(seq)))

\* SM2Deck.getNewCards(limit), as the sequence of the cards' keys
GetNewCards(limit) ==
    Slice0(SelectSeq(order, LAMBDA k : cards[k].isNew), limit)

\* what getNextCard() returns when it returns null
NoKey == ""

\* a getNextCard() without its second priority
GetNextCard_NoFallback(now) ==
    IF Len(GetDueCards(now)) > 0 THEN GetDueCards(now)[1] ELSE NoKey

\* SM2Deck.getNextCard(), as the key of the card it returns
GetNextCard(now) ==
    IF Len(GetDueCards(now)) > 0 THEN GetDueCards(now)[1]
    ELSE IF Len(GetNewCards(1)) > 0 THEN GetNewCards(1)[1]
    ELSE NoKey

\* what Map.prototype.get returns for a key the Map does not hold
Undefined == "undefined"

\* SM2Deck.getCard(character), as the key of the card it returns
GetCard(character) ==
    IF character \in DOMAIN cards THEN character ELSE Undefined

\* Array.prototype.reduce((sum, c) => sum + c[field], 0) over the deck's cards
RECURSIVE SumOver(_, _)
SumOver(ks, field) ==
    IF ks = << >> THEN 0 ELSE cards[Head(ks)][field] + SumOver(Tail(ks), field)

\* SM2Deck.getStats()
GetStats(now) ==
    [ total          |-> Len(order),
      new            |-> Len(SelectSeq(order, LAMBDA k : cards[k].isNew)),
      learning       |-> Len(SelectSeq(order, LAMBDA k :
                                cards[k].isLearning /\ ~cards[k].isNew)),
      mature         |-> Len(SelectSeq(order, LAMBDA k : cards[k].isMature)),
      due            |-> Len(SelectSeq(order, LAMBDA k : IsDue(cards[k], now))),
      totalReviews   |-> SumOver(order, "totalReviews"),
      totalCorrect   |-> SumOver(order, "correctCount"),
      totalIncorrect |-> SumOver(order, "incorrectCount") ]

---------------------------------------------------------------------------
(* Serialization *)

\* SM2Card.toJSON()
CardToJSON(card) ==
    [ character           |-> card.character,
      easeFactor          |-> card.easeFactor,
      interval            |-> card.interval,
      repetitions         |-> card.repetitions,
      nextReview          |-> card.nextReview,
      lastReviewed        |-> card.lastReviewed,
      totalReviews        |-> card.totalReviews,
      correctCount        |-> card.correctCount,
      incorrectCount      |-> card.incorrectCount,
      averageResponseTime |-> card.averageResponseTime,
      isNew               |-> card.isNew,
      isLearning          |-> card.isLearning,
      isMature            |-> card.isMature ]

\* Object.assign(target, source): source's fields over target's
ObjectAssign(target, source) ==
    [f \in DOMAIN target \cup DOMAIN source |->
        IF f \in DOMAIN source THEN source[f] ELSE target[f]]

\* a restore that keeps the due time the constructor gave the fresh card
CardFromJSON_FreshDue(data, now) ==
    [ObjectAssign(NewCard(data.character, now), data) EXCEPT !.nextReview = now]

\* SM2Card.fromJSON(data), with Date.now() = now
CardFromJSON(data, now) == ObjectAssign(NewCard(data.character, now), data)

\* SM2Deck.toJSON(): cardsData holds a property per card, in the order
\* this.cards.forEach visits them (keys)
DeckToJSON ==
    [ cards                |-> [k \in DOMAIN cards |-> CardToJSON(cards[k])],
      keys                 |-> order,
      newCardsPerDay       |-> newCardsPerDay,
      maxReviewsPerSession |-> maxReviewsPerSession ]

\* value || fallback, for a number
OrDefault(value, fallback) == IF value = 0 THEN fallback ELSE value

\* SM2Deck.fromJSON(data), with Date.now() = now; Object.entries(data.cards)
\* visits the properties in the order they were set (data.keys)
DeckFromJSON(data, now) ==
    [ cards                |-> [k \in DOMAIN data.cards |->
                                   CardFromJSON(data.cards[k], now)],
      order                |-> data.keys,
      newCardsPerDay       |-> OrDefault(data.newCardsPerDay, DefaultNewCardsPerDay),
      maxReviewsPerSession |-> OrDefault(data.maxReviewsPerSession,
                                         DefaultMaxReviewsPerSession) ]

---------------------------------------------------------------------------
(* The state machine *)

NoCall == [op |-> "init", key |-> "", quality |-> 0, responseTime |-> 0]

Init ==
    /\ cards = << >>
    /\ order = << >>
    /\ newCardsPerDay = DefaultNewCardsPerDay
    /\ maxReviewsPerSession = DefaultMaxReviewsPerSession
    /\ clock = 0
    /\ last = NoCall
    /\ currentCard = NoKey
    /\ awaitingNextCard = FALSE
    /\ timers = {}
    /\ gradings = 0
    /\ educationalPanel = FALSE
    /\ unlockedLevels = {}

\* an addCard() that replaces the card it finds
AddCard_Overwrite(k) ==
    /\ cards' = [x \in DOMAIN cards \cup {k} |->
                    IF x = k THEN NewCard(k, clock) ELSE cards[x]]
    /\ order' = IF k \in DOMAIN cards THEN order ELSE Append(order, k)
    /\ last' = [NoCall EXCEPT !.op = "addCard", !.key = k]
    /\ UNCHANGED <<newCardsPerDay, maxReviewsPerSession, clock, appVars>>

\* SM2Deck.addCard(character)
AddCard(k) ==
    /\ IF k \notin DOMAIN cards
       THEN /\ cards' = [x \in DOMAIN cards \cup {k} |->
                            IF x = k THEN NewCard(k, clock) ELSE cards[x]]
            /\ order' = Append(order, k)
       ELSE UNCHANGED <<cards, order>>
    /\ last' = [NoCall EXCEPT !.op = "addCard", !.key = k]
    /\ UNCHANGED <<newCardsPerDay, maxReviewsPerSession, clock, appVars>>

\* SM2Card.review(quality, responseTime) on the card of key k; the clock
\* advances by d between the call's two reads of Date.now()
Review(k, quality, responseTime, d) ==
    /\ k \in DOMAIN cards
    /\ cards' = [cards EXCEPT ![k] = ReviewCard(@, quality, responseTime, clock, clock + d)]
    /\ clock' = clock + d
    /\ last' = [op |-> "review", key |-> k, quality |-> quality,
                responseTime |-> responseTime]
    /\ UNCHANGED <<order, newCardsPerDay, maxReviewsPerSession, appVars>>

\* time passes between calls
Tick(d) ==
    /\ clock' = clock + d
    /\ last' = [NoCall EXCEPT !.op = "tick"]
    /\ UNCHANGED <<deckVars, appVars>>

\* deck = SM2Deck.fromJSON(deck.toJSON()): the deck is replaced by its restored
\* copy (what a restart of the app does with the deck it saved)
Restore ==
    LET restored == DeckFromJSON(DeckToJSON, clock)
    IN  /\ cards' = restored.cards
        /\ order' = restored.order
        /\ newCardsPerDay' = restored.newCardsPerDay
        /\ maxReviewsPerSession' = restored.maxReviewsPerSession
        /\ last' = [NoCall EXCEPT !.op = "restore"]
        /\ UNCHANGED <<clock, appVars>>

\* a getCard() that makes the card it does not find
CallGetCard_Inserting(k) ==
    /\ IF k \notin DOMAIN cards
       THEN /\ cards' = [x \in DOMAIN cards \cup {k} |->
                            IF x = k THEN NewCard(k, clock) ELSE cards[x]]
            /\ order' = Append(order, k)
       ELSE UNCHANGED <<cards, order>>
    /\ last' = [NoCall EXCEPT !.op = "getCard", !.key = k]
    /\ UNCHANGED <<newCardsPerDay, maxReviewsPerSession, clock, appVars>>

\* a call of getCard(k): Map.prototype.get writes nothing
CallGetCard(k) ==
    /\ last' = [NoCall EXCEPT !.op = "getCard", !.key = k]
    /\ UNCHANGED <<deckVars, clock, appVars>>

\* a getDueCards() that sorts the deck itself
CallGetDueCards_InPlace ==
    /\ order' = GetDueCards(clock)
                    \o SelectSeq(order, LAMBDA k : ~IsDue(cards[k], clock))
    /\ last' = [NoCall EXCEPT !.op = "getDueCards"]
    /\ UNCHANGED <<cards, newCardsPerDay, maxReviewsPerSession, clock, appVars>>

\* a call of getDueCards(): Array.from() and filter() make new arrays, and
\* sort() sorts the array filter() made, in place; the Map is not written
CallGetDueCards ==
    /\ last' = [NoCall EXCEPT !.op = "getDueCards"]
    /\ UNCHANGED <<deckVars, clock, appVars>>

\* a call of getNewCards(limit): Array.from(), filter() and slice() make new
\* arrays; the Map is not written
CallGetNewCards(limit) ==
    /\ last' = [NoCall EXCEPT !.op = "getNewCards"]
    /\ UNCHANGED <<deckVars, clock, appVars>>

\* a call of getNextCard(): getDueCards(), then getNewCards(1)
CallGetNextCard ==
    /\ last' = [NoCall EXCEPT !.op = "getNextCard"]
    /\ UNCHANGED <<deckVars, clock, appVars>>

\* a call of getStats(): Array.from(), filter() and reduce() read the cards
CallGetStats ==
    /\ last' = [NoCall EXCEPT !.op = "getStats"]
    /\ UNCHANGED <<deckVars, clock, appVars>>

\* the grading life of a card: every quality on every state the card reaches
Next ==
    \/ \E k \in Keys : AddCard(k)
    \/ \E k \in Keys, q \in Qualities, rt \in ResponseTimes, d \in Tears :
          /\ k \in DOMAIN cards
          /\ cards[k].totalReviews < MaxReviews
          /\ clock + d <= MaxClock
          /\ Review(k, q, rt, d)
    \/ /\ clock + 1 <= MaxClock
       /\ Tick(1)

Spec == Init /\ [][Next]_vars

\* the response times of a card: measured and unmeasured answers in any order
AverageNext ==
    \/ \E k \in Keys : AddCard(k)
    \/ \E k \in Keys, q \in DeckQualities, rt \in SampleTimes :
          /\ k \in DOMAIN cards
          /\ cards[k].totalReviews < MaxReviews
          /\ Review(k, q, rt, 0)

AverageSpec == Init /\ [][AverageNext]_vars

\* one card and its reviews, long enough for the ease factor to reach its
\* floor before a run of passes
RunNext ==
    \/ \E k \in Keys : AddCard(k)
    \/ \E k \in Keys, q \in RunQualities :
          /\ k \in DOMAIN cards
          /\ cards[k].totalReviews < RunMaxReviews
          /\ Review(k, q, 0, 0)

RunSpec == Init /\ [][RunNext]_vars

\* the life of a deck of several cards: cards are added at different times
\* (the keys in the order of DeckKeys, any of them again later), some are
\* reviewed, time passes, the deck is saved and restored, and it is queried
DeckNext ==
    \/ \E i \in 1..Len(DeckKeys) :
          /\ i <= Len(order) + 1
          /\ AddCard(DeckKeys[i])
    \/ \E k \in DOMAIN cards, q \in DeckQualities :
          /\ SumOver(order, "totalReviews") < DeckMaxReviews
          /\ Review(k, q, 0, 0)
    \/ /\ clock + 1 <= DeckMaxClock
       /\ Tick(1)
    \/ Restore
    \/ \E i \in 1..Len(DeckKeys) : CallGetCard(DeckKeys[i])
    \/ CallGetDueCards
    \/ \E limit \in Limits : CallGetNewCards(limit)
    \/ CallGetNextCard
    \/ CallGetStats

DeckSpec == Init /\ [][DeckNext]_vars

\* the change listener of the setting "new cards per day":
\* app.deck.newCardsPerDay = parseInt(e.target.value)
SetNewCardsPerDay(n) ==
    /\ newCardsPerDay' = n
    /\ last' = [NoCall EXCEPT !.op = "setNewCardsPerDay"]
    /\ UNCHANGED <<cards, order, maxReviewsPerSession, clock, appVars>>

\* a deck whose setting is changed and that is saved and restored
ConfigNext ==
    \/ \E i \in 1..Len(DeckKeys) :
          /\ i <= Len(order) + 1
          /\ AddCard(DeckKeys[i])
    \/ \E k \in DOMAIN cards, q \in DeckQualities :
          /\ SumOver(order, "totalReviews") < DeckMaxReviews
          /\ Review(k, q, 0, 0)
    \/ \E n \in ConfigValues : SetNewCardsPerDay(n)
    \/ Restore

ConfigSpec == Init /\ [][ConfigNext]_vars

\* a deck that is filled, reviewed and asked for its statistics
StatsNext ==
    \/ \E i \in 1..Len(DeckKeys) :
          /\ i <= Len(order) + 1
          /\ AddCard(DeckKeys[i])
    \/ \E k \in DOMAIN cards, q \in DeckQualities :
          /\ SumOver(order, "totalReviews") < StatsMaxReviews
          /\ Review(k, q, 0, 0)
    \/ CallGetStats

StatsSpec == Init /\ [][StatsNext]_vars

\* one round of the loop of a review session: card = deck.getNextCard();
\* card.review(quality), which is not entered when getNextCard() returns null
SessionStep(quality, d) ==
    /\ GetNextCard(clock) # NoKey
    /\ Review(GetNextCard(clock), quality, 0, d)

\* a deck that is only reviewed through the loop of a session, while cards
\* are added and time passes
SessionNext ==
    \/ \E i \in 1..Len(DeckKeys) :
          /\ i <= Len(order) + 1
          /\ AddCard(DeckKeys[i])
    \/ \E q \in DeckQualities, d \in Tears :
          /\ SumOver(order, "totalReviews") < SessionMaxReviews
          /\ clock + d <= SessionMaxClock
          /\ SessionStep(q, d)
    \/ /\ clock + 1 <= SessionMaxClock
       /\ Tick(1)

SessionSpec == Init /\ [][SessionNext]_vars

---------------------------------------------------------------------------
(* The app (ThaiScriptApp) *)

\* ThaiData.getLevelCharacters(levelNumber)
GetLevelCharacters(level) ==
    IF level = 1 THEN Level1Chars
    ELSE IF level = 2 THEN Level1Chars \o Level2Chars
    ELSE IF level = 3 THEN Level1Chars \o Level2Chars \o Level3Chars
    ELSE << >>

\* an unlock that starts the deck over with the characters it did not hold
AddLevelCards_StartOver(deck, chars, now) ==
    LET fresh == SelectSeq(chars, LAMBDA c : c \notin DOMAIN deck.cards)
    IN  IF fresh = << >> THEN deck
        ELSE [ cards |-> [x \in {fresh[i] : i \in 1..Len(fresh)} |-> NewCard(x, now)],
               order |-> fresh ]

\* levelChars.forEach(char => { if (!deck.getCard(char)) deck.addCard(char) })
\* on the deck [cards, order]
RECURSIVE AddLevelCards(_, _, _)
AddLevelCards(deck, chars, now) ==
    IF chars = << >> THEN deck
    ELSE LET k == Head(chars)
             added == IF k \in DOMAIN deck.cards THEN deck
                      ELSE [ cards |-> [x \in DOMAIN deck.cards \cup {k} |->
                                          IF x = k THEN NewCard(k, now)
                                          ELSE deck.cards[x]],
                             order |-> Append(deck.order, k) ]
         IN  AddLevelCards(added, Tail(chars), now)

\* one round of the loop of checkLevelUnlocks(), on st = [deck, unlocked];
\* should is the set of levels for which stats.shouldUnlockLevel() says yes
UnlockLevel(st, level, should, now) ==
    IF level \notin st.unlocked /\ level \in should
    THEN [ deck     |-> AddLevelCards(st.deck, GetLevelCharacters(level), now),
           unlocked |-> st.unlocked \cup {level} ]
    ELSE st

\* ThaiScriptApp.checkLevelUnlocks()
CheckLevelUnlocks(st, should, now) ==
    UnlockLevel(UnlockLevel(UnlockLevel(st, 1, should, now), 2, should, now),
                3, should, now)

\* HostSpec: the newCardsPerDay the app starts with: what an earlier session
\* saved from the settings, or the default
HostCaps == {1, DefaultNewCardsPerDay}

\* the app after init() on a storage without a deck: level 1 is unlocked, its
\* characters are in the deck, newCardsPerDay is data.deck.newCardsPerDay || 5
\* and the first card is on screen
HostInit ==
    /\ cards = [k \in {Level1Chars[i] : i \in 1..Len(Level1Chars)} |-> NewCard(k, 0)]
    /\ order = Level1Chars
    /\ newCardsPerDay \in HostCaps
    /\ maxReviewsPerSession = DefaultMaxReviewsPerSession
    /\ clock = 0
    /\ last = NoCall
    /\ currentCard = Level1Chars[1]
    /\ awaitingNextCard = FALSE
    /\ timers = {}
    /\ gradings = 0
    /\ educationalPanel = FALSE
    /\ unlockedLevels = {1}

\* ThaiScriptApp.nextCard(), but for the record of the call
ShowNextCard ==
    /\ awaitingNextCard' = FALSE
    /\ currentCard' = GetNextCard(clock)
    /\ gradings' = IF GetNextCard(clock) = currentCard THEN gradings ELSE 0
    /\ educationalPanel' = IF GetNextCard(clock) = NoKey THEN educationalPanel ELSE FALSE
    /\ UNCHANGED <<deckVars, clock, timers, unlockedLevels>>

\* ThaiScriptApp.nextCard(), called by the Space key
NextCard ==
    /\ ShowNextCard
    /\ last' = [NoCall EXCEPT !.op = "nextCard"]

\* ThaiScriptApp.checkAnswer() with a non-empty input that is correct or not;
\* quality is what stats.calculateQuality() answers. The educational panel,
\* which the code shows 600 ms after a wrong answer, is shown at once.
CheckAnswer(correct, quality, responseTime, should) ==
    /\ last' = [op |-> "checkAnswer", key |-> currentCard, quality |-> quality,
                responseTime |-> responseTime]
    /\ IF awaitingNextCard THEN ShowNextCard
       ELSE IF currentCard = NoKey THEN UNCHANGED <<deckVars, clock, appVars>>
       ELSE LET reviewed == [cards EXCEPT ![currentCard] =
                                ReviewCard(@, quality, responseTime, clock, clock)]
                st == CheckLevelUnlocks([ deck     |-> [cards |-> reviewed,
                                                        order |-> order],
                                          unlocked |-> unlockedLevels ],
                                        should, clock)
            IN  /\ cards' = st.deck.cards
                /\ order' = st.deck.order
                /\ unlockedLevels' = st.unlocked
                /\ gradings' = gradings + 1
                /\ IF correct
                   THEN /\ awaitingNextCard' = TRUE
                        /\ timers' = timers \cup {currentCard}
                        /\ UNCHANGED educationalPanel
                   ELSE /\ educationalPanel' = TRUE
                        /\ UNCHANGED <<awaitingNextCard, timers>>
                /\ UNCHANGED <<currentCard, newCardsPerDay, maxReviewsPerSession, clock>>

\* ThaiScriptApp.revealAnswer(), called by the Escape key
RevealAnswer(responseTime) ==
    /\ last' = [op |-> "revealAnswer", key |-> currentCard, quality |-> 0,
                responseTime |-> responseTime]
    /\ IF currentCard = NoKey \/ awaitingNextCard
       THEN UNCHANGED <<deckVars, clock, appVars>>
       ELSE /\ cards' = [cards EXCEPT ![currentCard] =
                            ReviewCard(@, 0, responseTime, clock, clock)]
            /\ gradings' = gradings + 1
            /\ awaitingNextCard' = TRUE
            /\ timers' = timers \cup {currentCard}
            /\ UNCHANGED <<order, newCardsPerDay, maxReviewsPerSession, clock,
                           currentCard, educationalPanel, unlockedLevels>>

\* the callback of setTimeout in checkAnswer() and revealAnswer() that was
\* set while the card k was on screen
AutoAdvance(k) ==
    /\ k \in timers
    /\ last' = [NoCall EXCEPT !.op = "autoAdvance", !.key = k]
    /\ IF awaitingNextCard
       THEN /\ awaitingNextCard' = FALSE
            /\ currentCard' = GetNextCard(clock)
            /\ gradings' = IF GetNextCard(clock) = currentCard THEN gradings ELSE 0
            /\ educationalPanel' = IF GetNextCard(clock) = NoKey
                                   THEN educationalPanel ELSE FALSE
            /\ timers' = timers \ {k}
            /\ UNCHANGED <<deckVars, clock, unlockedLevels>>
       ELSE /\ timers' = timers \ {k}
            /\ UNCHANGED <<deckVars, clock, currentCard, awaitingNextCard,
                           gradings, educationalPanel, unlockedLevels>>

\* ThaiScriptApp.proceedAfterRetype(), called by the re-type input of the
\* educational panel
ProceedAfterRetype ==
    /\ educationalPanel
    /\ last' = [NoCall EXCEPT !.op = "proceedAfterRetype"]
    /\ awaitingNextCard' = FALSE
    /\ currentCard' = GetNextCard(clock)
    /\ gradings' = IF GetNextCard(clock) = currentCard THEN gradings ELSE 0
    /\ educationalPanel' = FALSE
    /\ UNCHANGED <<deckVars, clock, timers, unlockedLevels>>

\* the submit button can be clicked: ui.disableInput() disables it in
\* checkAnswer() and revealAnswer(), ui.enableInput() enables it when
\* nextCard() shows a card
SubmitEnabled == ~awaitingNextCard /\ ~educationalPanel

\* a day of the app: the user answers, reveals, skips and re-types, levels
\* unlock, timers fire, time passes. A click on submit needs the button to be
\* enabled, and half a day is longer than any timer (1500 ms, 2000 ms): by
\* the time the clock ticks every callback has run.
HostNext ==
    \/ NextCard
    \/ \E correct \in BOOLEAN, q \in HostQualities, rt \in HostResponseTimes,
          should \in SUBSET {2, 3} :
          /\ SubmitEnabled
          /\ currentCard = NoKey \/ SumOver(order, "totalReviews") < HostMaxReviews
          /\ CheckAnswer(correct, q, rt, should)
    \/ \E rt \in HostResponseTimes :
          /\ awaitingNextCard \/ currentCard = NoKey
                \/ SumOver(order, "totalReviews") < HostMaxReviews
          /\ RevealAnswer(rt)
    \/ \E k \in timers : AutoAdvance(k)
    \/ ProceedAfterRetype
    \/ /\ clock + 1 <= HostMaxClock
       /\ timers = {}
       /\ Tick(1)

HostSpec == HostInit /\ [][HostNext]_vars

\* the page is loaded again: new ThaiScriptApp().init() on the data the
\* handlers saved. loadData() calls checkLevelUnlocks() while this.deck is
\* still the null of the constructor: when a locked level is in should, the
\* level is pushed on unlockedLevels, this.deck.getCard() throws, init() stops
\* there and the app holds no deck. Otherwise initializeDeck() restores the
\* deck with fromJSON, adds the characters of the current level, which is one
\* of the unlocked levels, and nextCard() shows the first card.
Start(should) ==
    LET hit == ({1, 2, 3} \ unlockedLevels) \cap should
        first == CHOOSE level \in hit : \A other \in hit : level <= other
        restored == DeckFromJSON(DeckToJSON, clock)
    IN  IF hit # {}
        THEN /\ unlockedLevels' = unlockedLevels \cup {first}
             /\ cards' = << >>
             /\ order' = << >>
             /\ last' = [NoCall EXCEPT !.op = "initFailed"]
             /\ currentCard' = NoKey
             /\ awaitingNextCard' = FALSE
             /\ timers' = {}
             /\ gradings' = 0
             /\ educationalPanel' = FALSE
             /\ UNCHANGED <<newCardsPerDay, maxReviewsPerSession, clock>>
        ELSE \E level \in unlockedLevels :
                LET deck == AddLevelCards([cards |-> restored.cards,
                                           order |-> restored.order],
                                          GetLevelCharacters(level), clock)
                IN  /\ UNCHANGED <<clock, unlockedLevels>>
                    /\ cards' = deck.cards
                    /\ order' = deck.order
                    /\ newCardsPerDay' = restored.newCardsPerDay
                    /\ maxReviewsPerSession' = restored.maxReviewsPerSession
                    /\ last' = [NoCall EXCEPT !.op = "start"]
                    /\ currentCard' = GetNextCard(clock)'
                    /\ awaitingNextCard' = FALSE
                    /\ timers' = {}
                    /\ gradings' = 0
                    /\ educationalPanel' = FALSE

\* the app over several page loads; after an init() that threw, no handler
\* is installed
StartNext ==
    \/ /\ last.op # "initFailed"
       /\ HostNext
    \/ \E should \in SUBSET {2, 3} :
          /\ last.op # "initFailed"
          /\ Start(should)

StartSpec == HostInit /\ [][StartNext]_vars

---------------------------------------------------------------------------
(* Properties of grading (SM2Card.review)                                  *)

\* the quality review() works with, written out: below 0 is 0, above 5 is 5
Clamped(q) == IF q < 0 THEN 0 ELSE IF q > 5 THEN 5 ELSE q

\* this step is a call of review(): on the card Before, which it leaves as
\* After, with the quality Quality and the response time ResponseTime as passed
Graded == last'.op = "review"
Before == cards[last'.key]
After == cards'[last'.key]
Quality == last'.quality
ResponseTime == last'.responseTime

\* C1: the ease factor of every card is at least 1.3 in every reachable
\* state, and it is 2.5 as long as the card has not been graded.
C1_EaseFloor ==
    \A k \in DOMAIN cards :
        /\ cards[k].easeFactor >= 130
        /\ cards[k].totalReviews = 0 => cards[k].easeFactor = 250

\* two failed grades have driven a card's ease factor onto the floor (no two
\* fail deltas add up to -1.2, so the floor itself was applied)
C1_Witness ==
    /\ last.op = "review"
    /\ cards[last.key].totalReviews = 2
    /\ cards[last.key].incorrectCount = 2
    /\ cards[last.key].easeFactor = 130

\* C2: correctCount + incorrectCount = totalReviews for every card in every
\* reachable state, and every review() adds one to totalReviews and one to
\* exactly one of correctCount and incorrectCount.
C2_CountersAddUp ==
    /\ [](\A k \in DOMAIN cards :
            cards[k].correctCount + cards[k].incorrectCount = cards[k].totalReviews)
    /\ [][Graded =>
            /\ After.totalReviews = Before.totalReviews + 1
            /\ \/ /\ After.correctCount = Before.correctCount + 1
                  /\ After.incorrectCount = Before.incorrectCount
               \/ /\ After.correctCount = Before.correctCount
                  /\ After.incorrectCount = Before.incorrectCount + 1]_vars

\* a card graded both ways
C2_Witness ==
    /\ last.op = "review"
    /\ cards[last.key].correctCount >= 1
    /\ cards[last.key].incorrectCount >= 2

\* C3: after a review() with clamped quality < 3 the card has repetitions 0,
\* interval 1 and state learning, and is not mature, whatever it was before.
C3_FailResets ==
    (last.op = "review" /\ Clamped(last.quality) < 3) =>
        /\ cards[last.key].repetitions = 0
        /\ cards[last.key].interval = 1
        /\ GetState(cards[last.key]) = "learning"
        /\ ~cards[last.key].isMature

\* a mature card (three passes) has just been failed
C3_Witness ==
    /\ last.op = "review"
    /\ Clamped(last.quality) < 3
    /\ cards[last.key].totalReviews = 4
    /\ cards[last.key].correctCount = 3
    /\ cards[last.key].repetitions = 0

\* C4: a pass (quality 3..5) on a card with repetitions 0 gives interval 1
\* and repetitions 1, and a pass on a card with repetitions 1 gives interval
\* 6 and repetitions 2, whatever the card's ease factor and interval were.
C4_IntervalLadder ==
    [][(Graded /\ Clamped(Quality) >= 3) =>
            /\ Before.repetitions = 0 =>
                  After.interval = 1 /\ After.repetitions = 1
            /\ Before.repetitions = 1 =>
                  After.interval = 6 /\ After.repetitions = 2]_vars

\* a card that lapsed, lost ease and then climbed both rungs of the ladder
C4_Witness ==
    /\ last.op = "review"
    /\ cards[last.key].incorrectCount >= 1
    /\ cards[last.key].easeFactor < 250
    /\ cards[last.key].repetitions = 2
    /\ cards[last.key].interval = 6

\* C5: a pass on a card with repetitions >= 2 sets the interval to the
\* integer nearest to (interval * easeFactor), both taken as they are when the
\* call begins (halves go up), and makes the card mature; at repetitions = 2,
\* the third consecutive pass, the interval multiplied is 6.
C5_MatureInterval ==
    [][(Graded /\ Clamped(Quality) >= 3 /\ Before.repetitions >= 2) =>
            LET product == Before.interval * Before.easeFactor
            IN  /\ 100 * After.interval - 50 <= product
                /\ product < 100 * After.interval + 50
                /\ GetState(After) = "mature"
                /\ After.isMature
                /\ Before.repetitions = 2 => Before.interval = 6]_vars

\* three perfect grades: the third multiplies 6 by 2.7 (16.2, so 16), where
\* the ease factor after that grade, 2.8, would have given 16.8, so 17
C5_Witness ==
    /\ last.op = "review"
    /\ cards[last.key].repetitions = 3
    /\ cards[last.key].easeFactor = 280
    /\ cards[last.key].interval = 16
    /\ cards[last.key].isMature

C7_EaseUpdate ==
    [][Graded =>
            LET c == Clamped(Quality)
                moved == Before.easeFactor + 10 - (5 - c) * (8 + (5 - c) * 2)
            IN  After.easeFactor = IF moved >= 130 THEN moved ELSE 130]_vars

\* a card that has been failed and has passed into mature, its ease factor
\* off the floor
C7_Witness ==
    /\ last.op = "review"
    /\ cards[last.key].incorrectCount >= 1
    /\ cards[last.key].isMature
    /\ cards[last.key].easeFactor > 130

\* C8 as the spec states it: a grade of quality 3 lowers the ease factor by
\* 0.06 whenever the floor is out of reach.
C8_Original ==
    [][(Graded /\ Quality = 3 /\ Before.easeFactor - 6 >= 130) =>
            After.easeFactor = Before.easeFactor - 6]_vars

\* C8, amended: a grade of quality 3 lowers the ease factor by 0.14 (the
\* formula's value at 3: 0.1 - 2 * (0.08 + 2 * 0.02)) whenever
\* easeFactor - 0.14 >= 1.3.
C8_QualityThree ==
    [][(Graded /\ Quality = 3 /\ Before.easeFactor - 14 >= 130) =>
            After.easeFactor = Before.easeFactor - 14]_vars

\* a fresh card graded 3 once
C8_Witness ==
    /\ last.op = "review"
    /\ last.quality = 3
    /\ cards[last.key].totalReviews = 1
    /\ cards[last.key].easeFactor = 236

\* C9 as the spec states it: a pass with quality 4 on a card whose ease factor
\* is above 1.3 strictly lowers the ease factor.
C9_Original ==
    [][(Graded /\ Quality = 4 /\ Before.easeFactor > 130) =>
            After.easeFactor < Before.easeFactor]_vars

\* C9, amended: the ease factor strictly falls at every quality up to 3
\* (unless it is on the floor already, where it stays), is unchanged at
\* quality 4 and strictly rises at quality 5.
C9_DeltaSigns ==
    [][Graded =>
            /\ Clamped(Quality) <= 3 =>
                  /\ After.easeFactor <= Before.easeFactor
                  /\ Before.easeFactor > 130 =>
                        After.easeFactor < Before.easeFactor
            /\ Clamped(Quality) = 4 => After.easeFactor = Before.easeFactor
            /\ Clamped(Quality) = 5 => After.easeFactor > Before.easeFactor]_vars

\* a card above the floor has just passed with quality 4
C9_Witness ==
    /\ last.op = "review"
    /\ last.quality = 4
    /\ cards[last.key].correctCount = cards[last.key].totalReviews
    /\ cards[last.key].easeFactor >= 250

\* C10: review() with any integer quality q leaves the card exactly as
\* review() with q clamped into 0..5 does (same response time, same clock):
\* q < 0 is a fail like 0, q > 5 a pass like 5.
C10_ClampedQuality ==
    [][Graded =>
        /\ After = ReviewCard(Before, Clamped(Quality), ResponseTime, clock, clock')
        /\ Quality < 0 => /\ After.incorrectCount = Before.incorrectCount + 1
                          /\ After.repetitions = 0
        /\ Quality > 5 => /\ After.correctCount = Before.correctCount + 1
                          /\ After.repetitions = Before.repetitions + 1]_vars

\* a card failed with the lowest grade has then been graded above the scale
C10_Witness ==
    /\ last.op = "review"
    /\ last.quality > 5
    /\ cards[last.key].incorrectCount >= 1
    /\ cards[last.key].easeFactor = 250 - 80 + 10

---------------------------------------------------------------------------
(* Properties of the deck (SM2Deck)                                        *)

\* the instants a query is asked about
Instants == 0..DeckMaxClock

\* the place of a key in the deck's insertion order
Position(k) == CHOOSE i \in 1..Len(order) : order[i] = k

\* C11: getDueCards() at the instant now returns exactly the deck's cards
\* with nextReview <= now: each of them once, and no card with
\* nextReview > now (nor anything that is not a card of the deck).
C11_DueExactly ==
    \A now \in Instants :
        LET due == GetDueCards(now)
        IN  /\ \A i \in 1..Len(due) :
                  /\ due[i] \in DOMAIN cards
                  /\ cards[due[i]].nextReview <= now
            /\ \A k \in DOMAIN cards :
                  cards[k].nextReview <= now =>
                      Cardinality({i \in 1..Len(due) : due[i] = k}) = 1

\* now, a card's time has just come (nextReview = now), another card is
\* overdue and a third one is not due yet
C11_Witness ==
    /\ \E k \in DOMAIN cards : cards[k].nextReview = clock
    /\ \E k \in DOMAIN cards : cards[k].nextReview < clock
    /\ \E k \in DOMAIN cards : cards[k].nextReview > clock
    /\ Len(GetDueCards(clock)) = 2

\* C12: getDueCards() is sorted by non-increasing now - nextReview (a more
\* overdue card comes strictly before a less overdue one), and cards that
\* are equally overdue come in the order in which they were added.
C12_DueOrder ==
    \A now \in Instants :
        LET due == GetDueCards(now)
        IN  \A i, j \in 1..Len(due) :
                i < j =>
                    /\ now - cards[due[i]].nextReview >= now - cards[due[j]].nextReview
                    /\ cards[due[i]].nextReview = cards[due[j]].nextReview =>
                           Position(due[i]) < Position(due[j])

\* three cards are due, two of them equally overdue and more than the card
\* that was added first, so that the result is not in insertion order
C12_Witness ==
    LET due == GetDueCards(clock)
    IN  /\ Len(due) = 3
        /\ due[1] = order[2]
        /\ due[2] = order[3]
        /\ due[3] = order[1]
        /\ cards[due[1]].nextReview = cards[due[2]].nextReview
        /\ cards[due[2]].nextReview < cards[due[3]].nextReview

\* C13: getNextCard() returns the first card of getDueCards() when there is
\* one; otherwise the first card in insertion order that was never reviewed,
\* when there is one; otherwise null. It returns null exactly when no card
\* is due and no card is new.
C13_NextCard ==
    \A now \in Instants :
        LET due     == GetDueCards(now)
            newKeys == SelectSeq(order, LAMBDA k : cards[k].isNew)
        IN  /\ Len(due) > 0 => GetNextCard(now) = due[1]
            /\ Len(due) = 0 /\ Len(newKeys) > 0 => GetNextCard(now) = newKeys[1]
            /\ Len(due) = 0 /\ Len(newKeys) = 0 => GetNextCard(now) = NoKey
            /\ GetNextCard(now) = NoKey <=>
                   /\ \A k \in DOMAIN cards : ~(cards[k].nextReview <= now)
                   /\ \A k \in DOMAIN cards : ~cards[k].isNew

\* the deck holds a reviewed card and, behind it, a new card: asked about an
\* instant before either is due, getNextCard() falls back on the new card;
\* asked about the present, it returns the head of the due cards
C13_Witness ==
    /\ Len(order) >= 2
    /\ ~cards[order[1]].isNew
    /\ \E now \in Instants :
          /\ Len(GetDueCards(now)) = 0
          /\ GetNextCard(now) # NoKey
          /\ cards[GetNextCard(now)].isNew
    /\ Len(GetDueCards(clock)) > 0
    /\ GetNextCard(clock) = GetDueCards(clock)[1]

\* C15: due cards first, then new cards: getNextCard() never returns a
\* never-reviewed card while some reviewed card is due, and never-reviewed
\* cards take no part in the ranking of the due cards.
C15_DueBeforeNew ==
    \A now \in Instants :
        /\ (\E k \in DOMAIN cards : ~cards[k].isNew /\ IsDue(cards[k], now)) =>
               ~cards[GetNextCard(now)].isNew
        /\ \A i \in 1..Len(GetDueCards(now)) : ~cards[GetDueCards(now)[i]].isNew

\* a reviewed card is due and getNextCard() returns a new card all the same
C15_NewJumpsQueue ==
    /\ \E k \in DOMAIN cards : ~cards[k].isNew /\ IsDue(cards[k], clock)
    /\ GetNextCard(clock) # NoKey
    /\ cards[GetNextCard(clock)].isNew

\* C16: addCard(k) with k in the deck, new or graded, changes no field of
\* any card and neither the size nor the order of the deck (the card it
\* returns, this.cards.get(k), is the one that was there); with k absent it
\* appends exactly one card, with the default state, and changes no other.
C16_AddIdempotent ==
    [][last'.op = "addCard" =>
          LET k == last'.key
          IN  /\ k \in DOMAIN cards => cards' = cards /\ order' = order
              /\ k \notin DOMAIN cards =>
                    /\ order' = Append(order, k)
                    /\ DOMAIN cards' = DOMAIN cards \cup {k}
                    /\ \A x \in DOMAIN cards : cards'[x] = cards[x]
                    /\ cards'[k] = [ character           |-> k,
                                     easeFactor          |-> 250,
                                     interval            |-> 0,
                                     repetitions         |-> 0,
                                     nextReview          |-> clock,
                                     lastReviewed        |-> NULL,
                                     totalReviews        |-> 0,
                                     correctCount        |-> 0,
                                     incorrectCount      |-> 0,
                                     averageResponseTime |-> 0,
                                     isNew               |-> TRUE,
                                     isLearning          |-> FALSE,
                                     isMature            |-> FALSE ]
              /\ newCardsPerDay' = newCardsPerDay
              /\ maxReviewsPerSession' = maxReviewsPerSession]_vars

\* addCard() has just been called, at a later time, for a card that had been
\* graded, beside a card that is still new
C16_Witness ==
    /\ last.op = "addCard"
    /\ Len(order) >= 2
    /\ cards[last.key].totalReviews >= 1
    /\ cards[last.key].nextReview > clock
    /\ \E k \in DOMAIN cards : cards[k].isNew

\* C17: on the deck SM2Deck.fromJSON(deck.toJSON()), restored at any time,
\* getNextCard() and getStats() return, for every instant, what they return
\* on the deck that was serialized: the same key, the same counts.
C17_RoundTrip ==
    [][last'.op = "restore" =>
          \A now \in Instants :
              /\ GetNextCard(now)' = GetNextCard(now)
              /\ GetStats(now)' = GetStats(now)]_vars

\* a deck has been restored later than its cards were created: it holds a
\* card that is still new and overdue, and a graded card that is not due yet
C17_Witness ==
    /\ last.op = "restore"
    /\ \E k \in DOMAIN cards : cards[k].isNew /\ cards[k].nextReview < clock
    /\ \E k \in DOMAIN cards : cards[k].totalReviews >= 1 /\ cards[k].nextReview > clock
    /\ GetStats(clock).due >= 1
    /\ GetStats(clock).due < GetStats(clock).total

---------------------------------------------------------------------------
(* Properties of a card's times and flags                                  *)

\* C18: after every review(), nextReview = lastReviewed + interval days,
\* however the clock behaves during the call: both times come from one
\* reading of the clock.
C18_OneClockReading ==
    \A k \in DOMAIN cards :
        cards[k].totalReviews > 0 =>
            cards[k].nextReview = cards[k].lastReviewed + cards[k].interval * Day

\* the clock has advanced during a review(): the card's nextReview is later
\* than its lastReviewed by more than its interval
C18_TornReview ==
    /\ last.op = "review"
    /\ cards[last.key].nextReview >
           cards[last.key].lastReviewed + cards[last.key].interval * Day

\* C19: in every reachable state exactly one of isNew, isLearning, isMature
\* is set on each card, so getState() never returns 'unknown'.
C19_OneFlag ==
    \A k \in DOMAIN cards :
        /\ Cardinality({f \in {"isNew", "isLearning", "isMature"} : cards[k][f]}) = 1
        /\ GetState(cards[k]) # "unknown"

\* a card that three passes had made mature has just failed: it is learning
C19_Witness ==
    /\ last.op = "review"
    /\ cards[last.key].totalReviews = 4
    /\ cards[last.key].correctCount = 3
    /\ cards[last.key].repetitions = 0
    /\ GetState(cards[last.key]) = "learning"

\* C20: a reviewed card is in state learning exactly when its repetitions
\* is 0 or 1, and in state mature exactly when its repetitions is >= 2.
C20_StateByRepetitions ==
    \A k \in DOMAIN cards :
        ~cards[k].isNew =>
            /\ GetState(cards[k]) = "learning" <=> cards[k].repetitions \in {0, 1}
            /\ GetState(cards[k]) = "mature" <=> cards[k].repetitions >= 2

\* a card has passed twice in a row: its repetitions is 2 and it is learning
C20_LearningAtTwo ==
    /\ last.op = "review"
    /\ cards[last.key].repetitions = 2
    /\ cards[last.key].interval = 6
    /\ GetState(cards[last.key]) = "learning"
    /\ ~cards[last.key].isMature

---------------------------------------------------------------------------
(* Properties of the app                                                   *)

\* the cards the app has graded, each for the first time on the first day
\* as long as the first day lasts
GradedCards == {k \in DOMAIN cards : ~cards[k].isNew}

\* C14: the daily cap on new cards is respected: within one day the app
\* presents and grades for the first time at most newCardsPerDay cards
\* that were never reviewed before.
C14_DailyCap ==
    clock < Day => Cardinality(GradedCards) <= newCardsPerDay

\* within the first day the app has presented one new card after the
\* other and graded each once: one more than newCardsPerDay
C14_OneTooMany ==
    /\ clock < Day
    /\ Cardinality(GradedCards) = newCardsPerDay + 1
    /\ \A k \in GradedCards : cards[k].totalReviews = 1
    /\ last.op = "checkAnswer"
    /\ last.key = currentCard

---------------------------------------------------------------------------
(* Properties of a card's life                                             *)

---------------------------------------------------------------------------
(* Properties of the deck's queries and of its keys                        *)

\* the calls that only ask
Queries == {"getCard", "getDueCards", "getNewCards", "getNextCard", "getStats"}

\* C22: a card is new exactly as long as it has not been graded
\* (totalReviews = 0, lastReviewed unset), and a card that is not new stays
\* in the deck and stays not new through every review(), addCard(), query
\* and restore.
C22_NewUntilGraded ==
    /\ [](\A k \in DOMAIN cards :
             /\ cards[k].isNew <=> cards[k].totalReviews = 0
             /\ cards[k].isNew <=> cards[k].lastReviewed = NULL)
    /\ [][\A k \in DOMAIN cards :
             ~cards[k].isNew => k \in DOMAIN cards' /\ ~cards'[k].isNew]_vars

\* addCard() has just been called again for a card that was graded earlier
C22_Witness ==
    /\ last.op = "addCard"
    /\ ~cards[last.key].isNew
    /\ cards[last.key].totalReviews >= 1
    /\ cards[last.key].lastReviewed # NULL
    /\ cards[last.key].lastReviewed < clock

\* C23: getNewCards(limit) returns new cards only, in insertion order: for
\* limit >= 0 the first min(limit, k) of the k new cards, and for
\* limit <= 0 none.
C23_NewCardsLimit ==
    \A limit \in Limits :
        LET newKeys == SelectSeq(order, LAMBDA k : cards[k].isNew)
            result  == GetNewCards(limit)
        IN  /\ \A i \in 1..Len(result) : cards[result[i]].isNew
            /\ limit >= 0 => result = SubSeq(newKeys, 1, Min(limit, Len(newKeys)))
            /\ limit <= 0 => result = << >>

\* the deck holds a graded card and two new cards, and getNewCards(-1)
\* returns the first of the two
C23_NegativeLimit ==
    /\ Len(order) = 3
    /\ ~cards[order[1]].isNew
    /\ GetNewCards(0 - 1) = <<order[2]>>
    /\ GetNewCards(0) = << >>
    /\ GetNewCards(1) = <<order[2]>>

\* C24: getStats(), getDueCards(), getNewCards(), getNextCard() and
\* getCard() are read-only: a call leaves every field of every card, the
\* insertion order and newCardsPerDay / maxReviewsPerSession unchanged.
C24_QueriesReadOnly ==
    [][last'.op \in Queries =>
          /\ cards' = cards
          /\ order' = order
          /\ newCardsPerDay' = newCardsPerDay
          /\ maxReviewsPerSession' = maxReviewsPerSession]_vars

\* getDueCards() has just been called on a deck whose due cards it does not
\* return in insertion order
C24_Witness ==
    /\ last.op = "getDueCards"
    /\ Len(GetDueCards(clock)) >= 2
    /\ GetDueCards(clock) # SelectSeq(order, LAMBDA k : IsDue(cards[k], clock))

\* C26: getCard() with a key that is not in the deck returns undefined (no
\* card at all), and the call adds no card for that key: the deck is as
\* it was.
C26_UnknownKey ==
    /\ [](\A i \in 1..Len(DeckKeys) :
             DeckKeys[i] \notin DOMAIN cards =>
                 /\ GetCard(DeckKeys[i]) = Undefined
                 /\ GetCard(DeckKeys[i]) \notin DOMAIN cards)
    /\ [][last'.op = "getCard" /\ last'.key \notin DOMAIN cards =>
             /\ DOMAIN cards' = DOMAIN cards
             /\ cards' = cards
             /\ order' = order]_vars

\* getCard() has just been called with a key the deck, which holds other
\* cards, does not hold
C26_Witness ==
    /\ last.op = "getCard"
    /\ last.key \notin DOMAIN cards
    /\ GetCard(last.key) = Undefined
    /\ Len(order) >= 1

\* C25: no card is ever removed: over every step (a grade, a level unlock
\* with its addCard() calls, a query by nextCard(), a timer) the keys of the
\* deck only grow, the cards keep their place in the insertion order, and
\* getStats().total does not decrease.
C25_KeysOnlyGrow ==
    [][/\ DOMAIN cards \subseteq DOMAIN cards'
       /\ SubSeq(order', 1, Len(order)) = order
       /\ GetStats(clock)'.total >= GetStats(clock).total]_vars

\* a wrong answer has been graded and has unlocked levels 2 and 3: the deck
\* has grown by their characters and still holds the graded card
C25_Witness ==
    /\ last.op = "checkAnswer"
    /\ unlockedLevels = {1, 2, 3}
    /\ Len(order) = Len(Level1Chars) + Len(Level2Chars) + Len(Level3Chars)
    /\ cards[last.key].totalReviews >= 1
    /\ GetStats(clock).total = Len(order)

---------------------------------------------------------------------------
(* Properties of the response-time average                                 *)

\* C27: a review() with responseTime = 0 leaves averageResponseTime as it
\* was and updates the rest of the card as any review() does; the first
\* review() with responseTime > 0 sets the average to that sample; every
\* later one sets it to 0.8 * previous + 0.2 * sample. (The average is 0
\* until the first measured review() and positive ever after, which is how
\* the first one is told from the later ones.)
C27_ResponseTimeAverage ==
    /\ [](\A k \in DOMAIN cards :
             cards[k].totalReviews = 0 => cards[k].averageResponseTime = 0)
    /\ [][Graded =>
             /\ ResponseTime = 0 =>
                   /\ After.averageResponseTime = Before.averageResponseTime
                   /\ After.totalReviews = Before.totalReviews + 1
                   /\ After.lastReviewed = clock
                   /\ ~After.isNew
                   /\ After = [ReviewCard(Before, Quality, 1000, clock, clock')
                                  EXCEPT !.averageResponseTime =
                                             Before.averageResponseTime]
             /\ ResponseTime > 0 =>
                   /\ After.averageResponseTime > 0
                   /\ Before.averageResponseTime = 0 =>
                         After.averageResponseTime = ResponseTime * AvgScale
                   /\ Before.averageResponseTime > 0 =>
                         10 * After.averageResponseTime =
                             8 * Before.averageResponseTime
                                 + 2 * ResponseTime * AvgScale]_vars

\* a card was answered in 1000 ms, then without a measured time, then in
\* 2000 ms: its average is 0.8 * 1000 + 0.2 * 2000 = 1200 ms
C27_Witness ==
    /\ last.op = "review"
    /\ last.responseTime = 2000
    /\ cards[last.key].totalReviews = 3
    /\ cards[last.key].averageResponseTime = 1200 * AvgScale

---------------------------------------------------------------------------
(* Properties of the clock readings of a query                             *)

\* C28: each query evaluates the whole deck against one instant: however
\* the clock behaves during a getDueCards() / getNextCard() / getStats()
\* call, the cards reported due are those with nextReview <= t for one time
\* t; a card with a later nextReview is never reported due while a card
\* with an earlier nextReview is left out.
C28_OneInstant ==
    \A reads \in Readings(clock) :
        /\ \E t \in clock..(clock + QueryDrift) :
              FilterDue(reads) = {k \in DOMAIN cards : cards[k].nextReview <= t}
        /\ \A k, x \in DOMAIN cards :
              cards[k].nextReview < cards[x].nextReview /\ x \in FilterDue(reads)
                  => k \in FilterDue(reads)

\* the clock advances while a query filters the deck: the first card, read
\* before its time, is left out, and a card with a later nextReview, read at
\* its time, is reported due
C28_TornQuery ==
    /\ Len(order) >= 2
    /\ \E reads \in Readings(clock) :
          /\ order[1] \notin FilterDue(reads)
          /\ order[2] \in FilterDue(reads)
          /\ cards[order[1]].nextReview < cards[order[2]].nextReview

\* C29: review() is a pure function of (card, quality, responseTime, now):
\* grading a card leaves every other card, the order of the deck and its
\* configuration unchanged, and the graded card is what one reading now of
\* the clock, taken during the call, makes of it.
C29_PureGrade ==
    [][Graded =>
          /\ \A k \in DOMAIN cards \ {last'.key} : cards'[k] = cards[k]
          /\ DOMAIN cards' = DOMAIN cards
          /\ order' = order
          /\ newCardsPerDay' = newCardsPerDay
          /\ maxReviewsPerSession' = maxReviewsPerSession
          /\ \E now \in clock..clock' :
                After = ReviewCard(Before, Quality, ResponseTime, now, now)
      ]_vars

\* a card as no single reading of the clock leaves it: its lastReviewed and
\* its nextReview were taken from two readings
C29_TwoReadings ==
    /\ last.op = "review"
    /\ \A now \in 0..clock :
          \/ cards[last.key].lastReviewed # now
          \/ cards[last.key].nextReview # now + cards[last.key].interval * Day

---------------------------------------------------------------------------
(* Properties of the wrong-answer flow (ThaiScriptApp)                     *)

\* C30: after a wrong answer the app does not advance: while the educational
\* panel of a wrong answer is up, no step other than proceedAfterRetype()
\* replaces the current card.
C30_NoAdvanceBeforeRetype ==
    [][educationalPanel /\ last'.op # "proceedAfterRetype"
          => currentCard' = currentCard]_vars

---------------------------------------------------------------------------
(* Properties of the start of the app (ThaiScriptApp.init)                 *)

\* C31: whenever checkLevelUnlocks() unlocks a level, in a handler or in
\* loadData() at the start, it completes without error, and afterwards the
\* level is in unlockedLevels and each of its characters is a key of the deck.
C31_UnlockCompletes ==
    [][\A level \in unlockedLevels' \ unlockedLevels :
          /\ last'.op # "initFailed"
          /\ \A i \in 1..Len(GetLevelCharacters(level)) :
                GetLevelCharacters(level)[i] \in DOMAIN cards'
      ]_vars

\* init() threw in loadData(): a level was unlocked and the app has no deck
C31_InitFailed ==
    /\ last.op = "initFailed"
    /\ unlockedLevels # {1}
    /\ DOMAIN cards = {}

---------------------------------------------------------------------------
(* Properties of a card after its review                                   *)

\* C32: after any review, pass or fail, the card has interval >= 1 and its
\* nextReview is at least one day after the time of the review, so until a
\* day has passed on the clock the card is not due, is not in getDueCards()
\* and is not what getNextCard() returns.
C32_NotDueForADay ==
    \A k \in DOMAIN cards :
        cards[k].totalReviews > 0 =>
            /\ cards[k].interval >= 1
            /\ cards[k].nextReview >= cards[k].lastReviewed + Day
            /\ \A now \in clock..(cards[k].lastReviewed + Day - 1) :
                  /\ ~IsDue(cards[k], now)
                  /\ \A i \in 1..Len(GetDueCards(now)) : GetDueCards(now)[i] # k
                  /\ GetNextCard(now) # k

\* half a day after a failed review the card is not offered; a day after
\* it, it is
C32_Witness ==
    \E k \in DOMAIN cards :
        /\ cards[k].totalReviews > 0
        /\ cards[k].repetitions = 0
        /\ clock = cards[k].lastReviewed + 1
        /\ GetNextCard(clock) = NoKey
        /\ GetNextCard(clock + 1) = k

\* C33: within a run of passes in a row the interval grows at every review:
\* the first pass gives 1, the second 6, and each later pass gives
\* round(interval * easeFactor), which is greater than the interval before,
\* for every ease factor the card can have, the floor 1.3 included.
C33_IntervalGrows ==
    [][Graded /\ Clamped(Quality) >= 3 =>
          /\ Before.repetitions = 0 => After.interval = 1
          /\ Before.repetitions = 1 => Before.interval = 1 /\ After.interval = 6
          /\ Before.repetitions >= 2 =>
                After.interval = Round(Before.interval * Before.easeFactor, EaseScale)
          /\ Before.repetitions >= 1 => After.interval > Before.interval
      ]_vars

\* a fourth pass in a row at the floor of the ease factor: 1, 6, 8, 10
C33_Witness ==
    \E k \in DOMAIN cards :
        /\ cards[k].repetitions = 4
        /\ cards[k].easeFactor = MinEase
        /\ cards[k].interval = 10

---------------------------------------------------------------------------
(* Properties of never-reviewed cards in the queue                         *)

---------------------------------------------------------------------------
(* Properties of a review session                                          *)

\* the cards reviewed less than a day before the present
Recent == {k \in DOMAIN cards :
              cards[k].totalReviews > 0 /\ clock < cards[k].lastReviewed + Day}

\* C35: a review session ends: in the loop 'card = getNextCard();
\* card.review(q)' two reviews of one card are at least a day apart on the
\* clock, so while the clock advances by less than a day no card is reviewed
\* twice, a deck of N cards takes at most N reviews, and once every card was
\* reviewed within the day getNextCard() returns null.
C35_SessionEnds ==
    /\ [](/\ GetNextCard(clock) \notin Recent
          /\ Recent = DOMAIN cards => GetNextCard(clock) = NoKey)
    /\ [][Graded =>
             /\ last'.key = GetNextCard(clock)
             /\ last'.key \notin Recent
             /\ Before.totalReviews > 0 => clock >= Before.lastReviewed + Day
         ]_vars

\* the session on a deck of three cards has ended after three reviews, half
\* a day after it began
C35_Witness ==
    /\ Len(order) = Len(DeckKeys)
    /\ Recent = DOMAIN cards
    /\ \A k \in DOMAIN cards : cards[k].totalReviews = 1
    /\ \E k \in DOMAIN cards : cards[k].lastReviewed < clock
    /\ GetNextCard(clock) = NoKey

---------------------------------------------------------------------------
(* Properties of the states of the cards, counted and by repetitions       *)

\* C36: getStats() partitions the deck by state: new + learning + mature =
\* total, and each card is counted in exactly one of the three.
C36_StatsPartition ==
    LET st == GetStats(clock)
    IN  /\ st.new + st.learning + st.mature = st.total
        /\ st.total = Cardinality(DOMAIN cards)
        /\ \A k \in DOMAIN cards :
              Cardinality({c \in {"new", "learning", "mature"} :
                              \/ c = "new" /\ cards[k].isNew
                              \/ c = "learning" /\ cards[k].isLearning /\ ~cards[k].isNew
                              \/ c = "mature" /\ cards[k].isMature}) = 1

\* getStats() on a deck with one card of each state
C36_Witness ==
    /\ last.op = "getStats"
    /\ GetStats(clock).total = 3
    /\ GetStats(clock).new = 1
    /\ GetStats(clock).learning = 1
    /\ GetStats(clock).mature = 1

---------------------------------------------------------------------------
(* Properties of the events of the app                                     *)

\* C38: each presentation of a card is graded at most once: between two
\* changes of the current card there is at most one call of
\* currentCard.review(), whatever the order of submit, Escape, Space,
\* re-type and timer events.
C38_OneGradePerCard == gradings <= 1

\* Escape after a wrong answer: the card on screen was reviewed by
\* checkAnswer() and again, with quality 0, by revealAnswer()
C38_GradedTwice ==
    /\ last.op = "revealAnswer"
    /\ last.key = currentCard
    /\ educationalPanel
    /\ gradings = 2
    /\ cards[currentCard].totalReviews = 2

\* C39: the auto-advance timer set when a card is graded only ever advances
\* away from that card: when its callback calls nextCard(), the current card
\* is still the card the timer was set for.
C39_TimerLeavesItsCard ==
    [][last'.op = "autoAdvance" /\ awaitingNextCard
          => currentCard = last'.key]_vars

---------------------------------------------------------------------------
(* Properties of the deck's configuration                                  *)

\* C40: the configuration of the deck survives a round trip: for every
\* newCardsPerDay and maxReviewsPerSession >= 0, 0 included,
\* SM2Deck.fromJSON(deck.toJSON()) has the newCardsPerDay and the
\* maxReviewsPerSession of deck.
C40_ConfigRoundTrip ==
    [][last'.op = "restore" =>
          /\ newCardsPerDay' = newCardsPerDay
          /\ maxReviewsPerSession' = maxReviewsPerSession]_vars

=============================================================================
